---- MODULE Spec2Model ----
(***************************************************************************)
(* Model of firenoo/typeddna, src/src/firenoo/dna/dna.cpp: the growable    *)
(* byte buffer CharDna, the fixed-width views Int32Dna and Long64Dna, and  *)
(* the file codec serialize / deserialize.                                 *)
(*                                                                         *)
(* Representation.                                                         *)
(*  - A byte is a number 0..255 (the bit pattern of a C++ char).           *)
(*  - A CharDna object is a record [m_data, m_len, m_seed, m_ptr]; m_data  *)
(*    is the heap array as a sequence of m_len bytes, index i of the code  *)
(*    being element i+1.                                                   *)
(*  - Offsets and lengths have the type uint_fast32_t.  Its arithmetic is  *)
(*    modular; the model keeps the modular arithmetic at a width of        *)
(*    OffsetBits bits (OffMod = 2^OffsetBits) so that the arrays stay      *)
(*    finite.  Allocation never fails in the model (no std::bad_alloc).    *)
(*  - Multi-byte data values (the arguments of set_int / set_long, seeds,  *)
(*    the words of the codec) are little-endian tuples of bytes, so that   *)
(*    64-bit values keep every bit.                                        *)
(*  - Undefined behaviour: a read outside the heap array yields an         *)
(*    arbitrary byte (parameter g of the operators, chosen by the action); *)
(*    a write outside the heap array does not change the array and the     *)
(*    process either goes on or crashes.                                   *)
(***************************************************************************)
EXTENDS Integers, Sequences, FiniteSets, TLC

\* ------------------------------------------------------------------ bounds
OffsetBits == 5
MaxOps == 3

OffMod == 2 ^ OffsetBits

\* --------------------------------------------------------- input universes
Byte == 0 .. 255

Zero8 == <<0, 0, 0, 0, 0, 0, 0, 0>>

\* The seed given to the constructors: one value with bits in both halves
\* (no writing call reads or writes m_seed).
Seeds == { <<1, 0, 0, 0, 1, 0, 0, 0>> }

InitLens == {0, 2, 16}

Sources == { <<7, 255>>, <<9, 8, 7>> }

ByteVals == {1, 255}

GarbageBytes == {0, 238}

Offsets == {0, 1, 3, 7, OffMod \div 2 - 1, OffMod \div 2, OffMod - 3,
            OffMod - 1}

Units32 == {0, 1, OffMod \div 4}

Units64 == {0, 1}

Vals32 == { <<4, 255, 0, 0>>, <<120, 86, 52, 146>> }

Vals64 == { <<17, 255, 255, 255, 255, 255, 255, 0>>,
            <<1, 2, 3, 4, 5, 6, 7, 136>> }

\* Body(v) with v evaluated once.  (TLC evaluates a definition's body again
\* at each use of a LET name or of a parameter; binding the value keeps the
\* nested calls of the loops below linear.)
With(v, Body(_)) == CHOOSE r \in { Body(x) : x \in {v} } : TRUE

\* ----------------------------------------------------------------- CharDna
\* CharDna(uint_fast64_t seed, uint_fast32_t init_len)
CharDna(seed, init_len) ==
    [ m_data |-> [i \in 1 .. init_len |-> 0],
      m_len  |-> init_len,
      m_seed |-> seed,
      m_ptr  |-> 0 ]

\* CharDna(uint_fast64_t seed, uint_fast32_t init_len, const char* src)
CharDnaSrc(seed, init_len, src) ==
    [ m_data |-> [i \in 1 .. init_len |-> src[i]],
      m_len  |-> init_len,
      m_seed |-> seed,
      m_ptr  |-> init_len ]

\* CharDna(const CharDna& other)
CharDnaCopy(other) ==
    [ m_data |-> [i \in 1 .. other.m_len |-> other.m_data[i]],
      m_len  |-> other.m_len,
      m_seed |-> other.m_seed,
      m_ptr  |-> 0 ]

\* realloc without the copy loop: the new array is all zero.
realloc_NoCopy(d, newLen, g) ==
    IF newLen < d.m_ptr
    THEN d
    ELSE [ d EXCEPT !.m_data = [i \in 1 .. newLen |-> 0],
                    !.m_len = newLen ]

\* realloc without the guard on newLen < m_ptr.
realloc_NoGuard(d, newLen, g) ==
    [ d EXCEPT
        !.m_data = [i \in 1 .. newLen |->
                       IF i <= d.m_ptr
                       THEN (IF i <= d.m_len THEN d.m_data[i] ELSE g)
                       ELSE 0],
        !.m_len = newLen ]

\* realloc with a copy loop that starts at i = 1.
realloc_FromOne(d, newLen, g) ==
    IF newLen < d.m_ptr
    THEN d
    ELSE [ d EXCEPT
             !.m_data = [i \in 1 .. newLen |->
                            IF i = 1 THEN 0
                            ELSE IF i <= d.m_ptr
                            THEN (IF i <= d.m_len THEN d.m_data[i] ELSE g)
                            ELSE 0],
             !.m_len = newLen ]

\* void realloc(uint_fast32_t newLen); the copy loop reads m_data[i] for
\* every i < m_ptr, beyond the old array when m_ptr > m_len: such a read
\* yields the arbitrary byte g.
realloc(d, newLen, g) ==
    IF newLen < d.m_ptr
    THEN d
    ELSE [ d EXCEPT
             !.m_data = [i \in 1 .. newLen |->
                            IF i <= d.m_ptr
                            THEN (IF i <= d.m_len THEN d.m_data[i] ELSE g)
                            ELSE 0],
             !.m_len = newLen ]

\* set_char asking realloc for m_ptr instead of m_ptr * 2.
set_char_GrowExact(d, offset, newData, g) ==
    With(IF offset >= d.m_ptr
         THEN [d EXCEPT !.m_ptr = (offset + 1) % OffMod]
         ELSE d,
         LAMBDA d1 :
    With(IF d1.m_ptr > d1.m_len
         THEN realloc(d1, d1.m_ptr, g)
         ELSE d1,
         LAMBDA d2 :
    IF offset < d2.m_len
    THEN [d2 EXCEPT !.m_data[offset + 1] = newData]
    ELSE d2))

\* void set_char(uint_fast32_t offset, char newData); the final store goes
\* outside the array when offset >= m_len and then leaves the array as it is.
set_char(d, offset, newData, g) ==
    With(IF offset >= d.m_ptr
         THEN [d EXCEPT !.m_ptr = (offset + 1) % OffMod]
         ELSE d,
         LAMBDA d1 :
    With(IF d1.m_ptr > d1.m_len
         THEN realloc(d1, (d1.m_ptr * 2) % OffMod, g)
         ELSE d1,
         LAMBDA d2 :
    IF offset < d2.m_len
    THEN [d2 EXCEPT !.m_data[offset + 1] = newData]
    ELSE d2))

\* The store of set_char(offset, ..) whose result is d went outside the array.
StoreOutside(d, offset) == offset >= d.m_len

\* void append_char(char newData)
append_char(d, newData, g) ==
    With(d, LAMBDA self : set_char(self, self.m_ptr, newData, g))

\* char char_data(uint_fast32_t offset) const; g is what a read outside the
\* array yields.
char_data(d, offset, g) ==
    IF offset < d.m_len THEN d.m_data[offset + 1] ELSE g

\* uint_fast32_t capacity() const
capacity(d) == d.m_len

\* uint_fast32_t len() const
len(d) == d.m_ptr

\* uint_fast64_t seed() const
seed(d) == d.m_seed

\* const char* all_data() const, read for n bytes
all_data(d, n, g) == [i \in 1 .. n |-> char_data(d, i - 1, g)]

\* ---------------------------------------------------- platform parameters
\* Width in bytes of uint_fast32_t data values (g++ on x86-64 Linux: 8).
FAST32_BYTES == 8

\* Whether plain char is a signed type (g++ on x86-64: yes).
CHAR_SIGNED == TRUE

\* ------------------------------------------------------- byte-tuple helpers
\* Bitwise or of two bytes.
OrByte(a, b) ==
    LET bit(x, k) == (x \div (2 ^ k)) % 2
        m(k) == IF bit(a, k) = 1 \/ bit(b, k) = 1 THEN 2 ^ k ELSE 0
    IN  IF a = 0 THEN b
        ELSE IF b = 0 THEN a
        ELSE m(0) + m(1) + m(2) + m(3) + m(4) + m(5) + m(6) + m(7)

\* x | y on two little-endian tuples of the same width
OrWord(x, y) == [i \in 1 .. Len(x) |-> OrByte(x[i], y[i])]

\* x << 8 within the width of x
Shl8(x) == [i \in 1 .. Len(x) |-> IF i = 1 THEN 0 ELSE x[i - 1]]

\* x >> 8 within the width of x (unsigned)
Shr8(x) == [i \in 1 .. Len(x) |-> IF i = Len(x) THEN 0 ELSE x[i + 1]]

\* The little-endian tuple x widened (zero extension) or cut to n bytes.
Widen(x, n) == [i \in 1 .. n |-> IF i <= Len(x) THEN x[i] ELSE 0]

\* The conversion of a char with bit pattern c to an unsigned integer type of
\* n bytes: through int, with sign extension where char is signed.
CharToWord(c, n) ==
    [i \in 1 .. n |-> IF i = 1 THEN c
                      ELSE IF CHAR_SIGNED /\ c >= 128 THEN 255 ELSE 0]

\* The loop of set_int and set_long: byte i of the value (static_cast<char>
\* of the value shifted right by 8 i times) goes to set_char(offset + i).
\* The result is the sequence of the buffer's states after each set_char.
RECURSIVE StoreLoop(_, _, _, _, _)
StoreLoop(d, offset, newData, n, g) ==
    IF n = 0
    THEN <<>>
    ELSE With(set_char(d, offset, newData[1], g), LAMBDA d1 :
         With(Shr8(newData), LAMBDA shifted :
         With((offset + 1) % OffMod, LAMBDA next :
         <<d1>> \o StoreLoop(d1, next, shifted, n - 1, g))))

\* Some store of the loop went outside the array.
LoopOutside(trace, offset) ==
    \E i \in 1 .. Len(trace) :
        StoreOutside(trace[i], (offset + i - 1) % OffMod)

\* ---------------------------------------------------------------- Int32Dna
\* align() without the rounding up to the next unit.
Int32_align_Floor(d) == (len(d) \div 4) % OffMod

\* uint_fast32_t Int32Dna::align()
Int32_align(d) ==
    LET offset == len(d)
    IN  ((offset \div 4) + (((offset % 4) + 3) \div 4)) % OffMod

\* The states of the buffer after each set_char of set_int.
Int32_trace(d, offset, newData, g) ==
    With(d, LAMBDA self :
    With((offset * 4) % OffMod, LAMBDA off :
         StoreLoop(self, off, newData, 4, g)))

\* void Int32Dna::set_int(uint_fast32_t offset, uint_fast32_t newData)
set_int(d, offset, newData, g) ==
    With(Int32_trace(d, offset, newData, g), LAMBDA t : t[4])

\* void Int32Dna::append_int(uint_fast32_t newData)
append_int(d, newData, g) ==
    With(d, LAMBDA self : set_int(self, Int32_align(self), newData, g))

\* The loop of int_data and long_data: n times, data <<= 8 and then
\* data |= char_data(index), with the same index each time.
RECURSIVE LoadLoop(_, _, _, _, _)
LoadLoop(d, index, data, n, g) ==
    IF n = 0
    THEN data
    ELSE With(OrWord(Shl8(data),
                     CharToWord(char_data(d, index, g), Len(data))),
              LAMBDA data1 : LoadLoop(d, index, data1, n - 1, g))

\* uint_fast32_t Int32Dna::int_data(uint_fast32_t offset) const
int_data(d, offset, g) ==
    LET off == (offset * 4) % OffMod
    IN  LoadLoop(d, (off * 4) % OffMod, Widen(<<>>, FAST32_BYTES), 4, g)

\* ---------------------------------------------------------------- Long64Dna
\* align() without the rounding up to the next unit.
Long64_align_Floor(d) == (len(d) \div 8) % OffMod

\* uint_fast32_t Long64Dna::align()
Long64_align(d) ==
    LET offset == len(d)
    IN  ((offset \div 8) + (((offset % 8) + 7) \div 8)) % OffMod

\* The states of the buffer after each set_char of set_long.
Long64_trace(d, offset, newData, g) ==
    With(d, LAMBDA self :
    With((offset * 8) % OffMod, LAMBDA off :
         StoreLoop(self, off, newData, 8, g)))

\* void Long64Dna::set_long(uint_fast32_t offset, uint_fast64_t newData)
set_long(d, offset, newData, g) ==
    With(Long64_trace(d, offset, newData, g), LAMBDA t : t[8])

\* void Long64Dna::append_long(uint_fast64_t newData)
append_long(d, newData, g) ==
    With(d, LAMBDA self : set_long(self, Long64_align(self), newData, g))

\* uint_fast64_t Long64Dna::long_data(uint_fast32_t offset) const
long_data(d, offset, g) ==
    LET off == (offset * 8) % OffMod
    IN  LoadLoop(d, (off * 4) % OffMod, Widen(<<>>, 8), 8, g)

\* ------------------------------------------------------------ codec words
fn_UNIT_SIZE == 16

fn_TYPEDDNA_ID == 1

\* The character constant '\n' of serialize and deserialize.
NEWLINE == 10

\* The value n < 2^24 as a little-endian tuple of width bytes.
NatWord(n, width) ==
    [i \in 1 .. width |-> IF i = 1 THEN n % 256
                          ELSE IF i = 2 THEN (n \div 256) % 256
                          ELSE IF i = 3 THEN (n \div 65536) % 256
                          ELSE 0]

\* The tuple x holds a value of 2^24 or more.
BigWord(x) == \E i \in 4 .. Len(x) : x[i] # 0

\* The value of a tuple below 2^24.
WordNat(x) == x[1] + 256 * x[2] + 65536 * x[3]

\* The loop of write_int32 and write_int64: n times, the low byte of the
\* value (static_cast<char>) is stored and the value shifted right by 8.
RECURSIVE WriteLoop(_, _)
WriteLoop(in, n) ==
    IF n = 0
    THEN <<>>
    ELSE With(Shr8(in), LAMBDA shifted : <<in[1]>> \o WriteLoop(shifted, n - 1))

\* write_int32 storing the most significant byte first.
write_int32_BigEndian(in) ==
    With(WriteLoop(Widen(in, FAST32_BYTES), 4), LAMBDA b :
         <<b[4], b[3], b[2], b[1]>>)

\* static void write_int32(std::ofstream* stream, uint_fast32_t in): the
\* bytes written.
write_int32(in) == WriteLoop(Widen(in, FAST32_BYTES), 4)

\* static void write_int64(std::ofstream* stream, uint_fast64_t in)
write_int64(in) == WriteLoop(Widen(in, 8), 8)

\* The int expression (b & 0xff) << s of read_int32 and read_int64, as the
\* four bytes of the int.  A shift by 32 or more is undefined: it shifts by
\* s mod 32 (sh = "wrap", the x86 shift instruction) or gives 0 (sh = "zero").
IntShl(b, s, sh) ==
    IF s >= 32 /\ sh = "zero"
    THEN <<0, 0, 0, 0>>
    ELSE [i \in 1 .. 4 |-> IF i = ((s % 32) \div 8) + 1 THEN b ELSE 0]

\* The conversion of an int (four bytes, two's complement) to an unsigned
\* type of n bytes.
IntToWord(x, n) ==
    [i \in 1 .. n |-> IF i <= 4 THEN x[i]
                      ELSE IF x[4] >= 128 THEN 255 ELSE 0]

\* The loop of read_int32 and read_int64 over buf[i .. n-1]:
\* result |= (buf[i] & 0xff) << (8 * i).
RECURSIVE ReadLoop(_, _, _, _, _)
ReadLoop(buf, i, n, result, sh) ==
    IF i = n
    THEN result
    ELSE With(OrWord(result,
                     IntToWord(IntShl(buf[i + 1], 8 * i, sh), Len(result))),
              LAMBDA r : ReadLoop(buf, i + 1, n, r, sh))

\* static uint_fast32_t read_int32(std::ifstream* stream): the value made of
\* the four bytes buf the stream left in the local array.
read_int32(buf, sh) == ReadLoop(buf, 0, 4, Widen(<<>>, FAST32_BYTES), sh)

\* static uint_fast64_t read_int64(std::ifstream* stream)
read_int64(buf, sh) == ReadLoop(buf, 0, 8, Widen(<<>>, 8), sh)

\* ------------------------------------------------------------------ stream
\* std::ifstream state: pos bytes consumed; failed when a read has run into
\* the end of the file (eofbit and failbit are set, later reads do nothing).
OpenStream == [pos |-> 0, failed |-> FALSE]

\* An uninitialized array of n chars: whatever the stack holds, here the
\* word gw repeated.
Uninit(n, gw) == [i \in 1 .. n |-> gw[((i - 1) % 4) + 1]]

\* stream.read(buf, n) on an array buf that was not initialized: the array
\* afterwards and the stream afterwards.
StreamRead(bytes, st, n, gw) ==
    IF st.failed
    THEN [buf |-> Uninit(n, gw), st |-> st]
    ELSE IF st.pos + n <= Len(bytes)
    THEN [buf |-> [i \in 1 .. n |-> bytes[st.pos + i]],
          st |-> [st EXCEPT !.pos = st.pos + n]]
    ELSE [buf |-> With(Uninit(n, gw), LAMBDA array :
                       [i \in 1 .. n |->
                           IF st.pos + i <= Len(bytes)
                           THEN bytes[st.pos + i]
                           ELSE array[i]]),
          st |-> [pos |-> Len(bytes), failed |-> TRUE]]

\* ------------------------------------------------------------- std::vector
\* std::vector<CharDna>: its elements and its capacity.
\* vec.emplace_back(seed, len, ptr): a full vector reallocates (libstdc++:
\* to twice its size, at least 1) and copies its elements with the copy
\* constructor; the new element is constructed in place.
emplace_back(vec, seed0, len0, src) ==
    IF Len(vec.elems) < vec.cap
    THEN [vec EXCEPT !.elems = Append(vec.elems, CharDnaSrc(seed0, len0, src))]
    ELSE [elems |-> [i \in 1 .. Len(vec.elems) + 1 |->
                        IF i <= Len(vec.elems)
                        THEN CharDnaCopy(vec.elems[i])
                        ELSE CharDnaSrc(seed0, len0, src)],
          cap |-> IF vec.cap = 0 THEN 1 ELSE 2 * vec.cap]

\* --------------------------------------------------------------- serialize
\* The body of the for loop of serialize for the records k .. of list.
RECURSIVE SerializeLoop(_, _, _)
SerializeLoop(list, k, g) ==
    IF k > Len(list)
    THEN <<>>
    ELSE With(len(list[k]), LAMBDA dna_len :
              write_int32(NatWord(dna_len, FAST32_BYTES))
           \o write_int32(NatWord(fn_UNIT_SIZE, FAST32_BYTES))
           \o write_int64(seed(list[k]))
           \o write_int32(NatWord(fn_TYPEDDNA_ID, FAST32_BYTES))
           \o write_int32(NatWord(NEWLINE, FAST32_BYTES))
           \o all_data(list[k], dna_len, g)
           \o SerializeLoop(list, k + 1, g))

\* static void serialize(path, list), the file having been opened: the bytes
\* written to the truncated file.
serialize(list, g) ==
    write_int32(NatWord(Len(list), FAST32_BYTES)) \o SerializeLoop(list, 1, g)

\* ------------------------------------------------------------- deserialize
\* The loop while(read_int32(&file) != '\n') {}: the stream when the loop
\* ends; hang when it never ends (the stream has failed, every further
\* read_int32 returns the same word of the uninitialized array).
RECURSIVE SkipLoop(_, _, _)
\* The header read without the loop: the type id and the terminator.
SkipLoop_TwoWords(bytes, st, u) ==
    With(StreamRead(bytes, st, 4, u.gw), LAMBDA r1 :
    With(StreamRead(bytes, r1.st, 4, u.gw), LAMBDA r2 :
         [hang |-> FALSE, st |-> r2.st]))

SkipLoop(bytes, st, u) ==
    With(StreamRead(bytes, st, 4, u.gw), LAMBDA r :
        IF read_int32(r.buf, u.sh) = NatWord(NEWLINE, FAST32_BYTES)
        THEN [hang |-> FALSE, st |-> r.st]
        ELSE IF st.failed
        THEN [hang |-> TRUE, st |-> r.st]
        ELSE SkipLoop(bytes, r.st, u))

\* The for loop of deserialize from iteration i on: the value returned
\* ("0" or "1", or "hang" / "crash" when the call does not return) and the
\* caller's vector.
RECURSIVE DeserializeLoop(_, _, _, _, _, _)
DeserializeLoop(bytes, st, vec, i, size, u) ==
    IF ~BigWord(size) /\ i >= WordNat(size)
    THEN [ret |-> "1", vec |-> vec]
    ELSE
    With(StreamRead(bytes, st, 4, u.gw), LAMBDA r1 :
    With(StreamRead(bytes, r1.st, 4, u.gw), LAMBDA r2 :
    IF read_int32(r2.buf, u.sh) # NatWord(fn_UNIT_SIZE, FAST32_BYTES)
    THEN [ret |-> "0", vec |-> vec]
    ELSE
    With(StreamRead(bytes, r2.st, 8, u.gw), LAMBDA r3 :
    With(SkipLoop(bytes, r3.st, u), LAMBDA r4 :
    With(read_int32(r1.buf, u.sh), LAMBDA dna_len :
    IF r4.hang
    THEN [ret |-> "hang", vec |-> vec]
    ELSE IF BigWord(dna_len)
    THEN [ret |-> "crash", vec |-> vec]
    ELSE
    With(StreamRead(bytes, r4.st, WordNat(dna_len), u.gw), LAMBDA r5 :
    IF r5.st.failed
    THEN [ret |-> "0", vec |-> vec]
    ELSE
    With(emplace_back(vec, read_int64(r3.buf, u.sh), WordNat(dna_len), r5.buf),
         LAMBDA vec1 :
         DeserializeLoop(bytes, r5.st, vec1, i + 1, size, u))))))))

\* static int deserialize(path, vec), the file having been opened.
deserialize(bytes, vec, u) ==
    With(StreamRead(bytes, OpenStream, 4, u.gw), LAMBDA r0 :
    With(read_int32(r0.buf, u.sh), LAMBDA size :
         DeserializeLoop(bytes, r0.st, vec, 0, size, u)))

\* ------------------------------------------------------------- the program
\* One CharDna object shared by an Int32Dna and a Long64Dna view (as in
\* main), written through the buffer and through the two views.
\*   crashed   a store outside the array has ended the process
\*   nops      number of writing calls made so far
\*   origin    constructor that made the object: "create" or "source"
\*   kind      the writing calls so far: "none", "bytes" (append_char only),
\*             "values" (append_int / append_long only) or "mixed"
\*   appended  the bytes passed to append_char, while kind is "bytes"
\*   slots     [w, unit, val] of each append_int / append_long: the unit
\*             align() returned and the value, while kind is "values"
\*   list      the CharDna objects handed to serialize, in order
\*   writable  the file at the path can be opened for writing
\*   file      the file at the path: whether it can be opened for reading,
\*             and its bytes
\*   vec       the caller's std::vector<CharDna>
\*   ret       the outcome of deserialize ("none" before the call)
\*   pc        "start", "written" after serialize, "read" after deserialize
\*   tamper    what was done to the file between serialize and deserialize
VARIABLES m_data, m_len, m_seed, m_ptr, crashed, nops, origin, kind,
          appended, slots,
          list, writable, file, vec, ret, pc, tamper

dnaVars == <<m_data, m_len, m_seed, m_ptr, crashed, nops, origin, kind,
             appended, slots>>

codecVars == <<list, writable, file, vec, ret, pc, tamper>>

vars == <<dnaVars, codecVars>>

Self == [ m_data |-> m_data, m_len |-> m_len, m_seed |-> m_seed,
          m_ptr |-> m_ptr ]

Become(d) ==
    /\ m_data' = d.m_data
    /\ m_len' = d.m_len
    /\ m_seed' = d.m_seed
    /\ m_ptr' = d.m_ptr

NoFile == [present |-> FALSE, bytes |-> <<>>]

NoTamper == [kind |-> "none", k |-> 0]

\* The codec before any call, with nothing to serialize.
CodecIdle ==
    /\ list = <<>>
    /\ writable = TRUE
    /\ file = NoFile
    /\ vec = [elems |-> <<>>, cap |-> 0]
    /\ ret = "none"
    /\ pc = "start"
    /\ tamper = NoTamper

Created ==
    [ dna : {CharDna(s, n) : s \in Seeds, n \in InitLens},
      by : {"create"} ]
    \cup
    [ dna : {CharDnaSrc(s, Len(src), src) : s \in Seeds, src \in Sources},
      by : {"source"} ]

Init ==
    /\ \E c \in Created :
          /\ m_data = c.dna.m_data
          /\ m_len = c.dna.m_len
          /\ m_seed = c.dna.m_seed
          /\ m_ptr = c.dna.m_ptr
          /\ origin = c.by
    /\ crashed = FALSE
    /\ nops = 0
    /\ kind = "none"
    /\ appended = <<>>
    /\ slots = <<>>
    /\ CodecIdle

CanWrite == ~crashed /\ nops < MaxOps

\* The outcome of a call whose stores may have gone outside the array.
Outcome(outside) == crashed' \in (IF outside THEN BOOLEAN ELSE {FALSE})

Wrote(k) ==
    /\ UNCHANGED codecVars
    /\ nops' = nops + 1
    /\ kind' = IF kind \in {"none", k} THEN k ELSE "mixed"
    /\ UNCHANGED origin

SetChar ==
    /\ CanWrite
    /\ \E offset \in Offsets, newData \in ByteVals, g \in GarbageBytes :
          \E d \in {set_char(Self, offset, newData, g)} :
              Become(d) /\ Outcome(StoreOutside(d, offset))
    /\ Wrote("mixed")
    /\ appended' = <<>>
    /\ slots' = <<>>

AppendChar ==
    /\ CanWrite
    /\ \E newData \in ByteVals, g \in GarbageBytes :
          \E d \in {append_char(Self, newData, g)} :
              /\ Become(d) /\ Outcome(StoreOutside(d, m_ptr))
              /\ appended' = IF kind \in {"none", "bytes"}
                             THEN Append(appended, newData) ELSE <<>>
    /\ Wrote("bytes")
    /\ slots' = <<>>

SetInt ==
    /\ CanWrite
    /\ \E offset \in Units32, newData \in Vals32, g \in GarbageBytes :
          \E t \in {Int32_trace(Self, offset, newData, g)} :
              /\ Become(t[4])
              /\ Outcome(LoopOutside(t, (offset * 4) % OffMod))
    /\ Wrote("mixed")
    /\ appended' = <<>>
    /\ slots' = <<>>

AppendInt ==
    /\ CanWrite
    /\ \E newData \in Vals32, g \in GarbageBytes :
          \E u \in {Int32_align(Self)} :
          \E t \in {Int32_trace(Self, u, newData, g)} :
              /\ Become(t[4])
              /\ Outcome(LoopOutside(t, (u * 4) % OffMod))
              /\ slots' = IF kind \in {"none", "values"}
                          THEN Append(slots, [w |-> 4, unit |-> u,
                                              val |-> newData])
                          ELSE <<>>
    /\ Wrote("values")
    /\ appended' = <<>>

SetLong ==
    /\ CanWrite
    /\ \E offset \in Units64, newData \in Vals64, g \in GarbageBytes :
          \E t \in {Long64_trace(Self, offset, newData, g)} :
              /\ Become(t[8])
              /\ Outcome(LoopOutside(t, (offset * 8) % OffMod))
    /\ Wrote("mixed")
    /\ appended' = <<>>
    /\ slots' = <<>>

AppendLong ==
    /\ CanWrite
    /\ \E newData \in Vals64, g \in GarbageBytes :
          \E u \in {Long64_align(Self)} :
          \E t \in {Long64_trace(Self, u, newData, g)} :
              /\ Become(t[8])
              /\ Outcome(LoopOutside(t, (u * 8) % OffMod))
              /\ slots' = IF kind \in {"none", "values"}
                          THEN Append(slots, [w |-> 8, unit |-> u,
                                              val |-> newData])
                          ELSE <<>>
    /\ Wrote("values")
    /\ appended' = <<>>

Next ==
    \/ SetChar
    \/ AppendChar
    \/ SetInt
    \/ AppendInt
    \/ SetLong
    \/ AppendLong

Spec == Init /\ [][Next]_vars

\* ------------------------------------------------------- the codec program
\* main() up to its second append, then serialize and deserialize called on
\* lists of CharDna objects, with whatever happens to the file in between.
MaxRecords == 2
MaxReserve == 2
MaxExtra == 2

MainInt == <<4, 255, 0, 0>>

MainLong == <<17, 255, 255, 255, 255, 255, 255, 0>>

\* int main(): dptr after wrap32.append_int(0xff04)
MainAfterInt(g) == append_int(CharDna(Zero8, 16), MainInt, g)

\* int main(): dptr after wrap64.append_long(0xffffffffffff11)
MainDna(g) == append_long(MainAfterInt(g), MainLong, g)

SeedLow == <<68, 51, 34, 17, 0, 0, 0, 0>>

SeedHigh == <<1, 0, 0, 0, 1, 0, 0, 0>>

SeedBit31 == <<0, 0, 0, 128, 0, 0, 0, 0>>

\* The objects a caller may put in the list: dptr of main, a buffer with
\* spare capacity, a buffer made from a source, an empty buffer.
Pool ==
    { MainDna(0),
      append_char(CharDna(SeedLow, 2), 255, 0),
      CharDnaSrc(SeedHigh, 3, <<9, 8, 7>>),
      CharDna(SeedBit31, 0) }

\* The lists handed to serialize: up to MaxRecords objects of the pool, each
\* at most once.
Lists ==
    { l \in UNION { [1 .. n -> Pool] : n \in 0 .. MaxRecords } :
         \A i, j \in 1 .. Len(l) : l[i] = l[j] => i = j }

\* The capacities of the caller's empty vector: nothing reserved, or room
\* for MaxReserve buffers.
Reserves == {0, MaxReserve}

GarbageWords == { <<10, 0, 0, 0>>, <<16, 0, 0, 0>>, <<238, 238, 238, 238>> }

ShiftModes == {"wrap", "zero"}

BadUnits == { <<17, 0, 0, 0>>, <<0, 0, 0, 0>> }

InitCodec ==
    /\ \E g \in GarbageBytes : \E dptr \in {MainDna(g)} :
          /\ m_data = dptr.m_data
          /\ m_len = dptr.m_len
          /\ m_seed = dptr.m_seed
          /\ m_ptr = dptr.m_ptr
          /\ slots = << [w |-> 4, unit |-> Int32_align(CharDna(Zero8, 16)),
                         val |-> MainInt],
                        [w |-> 8, unit |-> Long64_align(MainAfterInt(g)),
                         val |-> MainLong] >>
    /\ crashed = FALSE
    /\ nops = 2
    /\ origin = "create"
    /\ kind = "values"
    /\ appended = <<>>
    /\ list \in Lists
    /\ writable \in BOOLEAN
    /\ file = NoFile
    /\ vec \in [elems : {<<>>}, cap : Reserves]
    /\ ret = "none"
    /\ pc = "start"
    /\ tamper = NoTamper

\* Offset in the file of the header of record k of the list serialized.
RECURSIVE RecordStart(_, _)
RecordStart(l, k) ==
    IF k = 1 THEN 4 ELSE RecordStart(l, k - 1) + 24 + len(l[k - 1])

\* serialize without the test of file.is_open().
Serialize_NoOpenCheck ==
    /\ pc = "start"
    /\ \E g \in GarbageBytes :
          file' = [present |-> TRUE, bytes |-> serialize(list, g)]
    /\ pc' = "written"
    /\ UNCHANGED <<dnaVars, list, writable, vec, ret, tamper>>

\* serialize(path, list): nothing is written when the file cannot be opened.
Serialize ==
    /\ pc = "start"
    /\ IF writable
       THEN \E g \in GarbageBytes :
               file' = [present |-> TRUE, bytes |-> serialize(list, g)]
       ELSE UNCHANGED file
    /\ pc' = "written"
    /\ UNCHANGED <<dnaVars, list, writable, vec, ret, tamper>>

\* The file is changed before it is read: the unit-size field of record k
\* gets another value.
CorruptUnitSize ==
    /\ pc = "written" /\ file.present /\ tamper = NoTamper
    /\ \E k \in 1 .. Len(list), w \in BadUnits :
          /\ file' = [file EXCEPT !.bytes =
                        [i \in 1 .. Len(file.bytes) |->
                            IF i - (RecordStart(list, k) + 4) \in 1 .. 4
                            THEN w[i - (RecordStart(list, k) + 4)]
                            ELSE file.bytes[i]]]
          /\ tamper' = [kind |-> "unit", k |-> k]
    /\ UNCHANGED <<dnaVars, list, writable, vec, ret, pc>>

\* The file is changed before it is read: only its first n bytes remain.
Truncate ==
    /\ pc = "written" /\ file.present /\ tamper = NoTamper
    /\ \E n \in 0 .. Len(file.bytes) - 1 :
          /\ file' = [file EXCEPT !.bytes = SubSeq(file.bytes, 1, n)]
          /\ tamper' = [kind |-> "trunc", k |-> n]
    /\ UNCHANGED <<dnaVars, list, writable, vec, ret, pc>>

\* Header words a later writer may put between the seed and the terminator:
\* a word with the value of the terminator itself, and a word with its top
\* bit set.
ExtraWords == { <<10, 0, 0, 0>>, <<7, 0, 0, 128>> }

\* The bytes of a sequence of 4-byte words.
WordBytes(ws) ==
    [i \in 1 .. 4 * Len(ws) |-> ws[((i - 1) \div 4) + 1][((i - 1) % 4) + 1]]

\* The file is changed before it is read: the words ws are put into the
\* header of record k, between its seed and its type id.
InsertWords ==
    /\ pc = "written" /\ file.present /\ tamper = NoTamper
    /\ \E k \in 1 .. Len(list) :
       \E ws \in UNION { [1 .. n -> ExtraWords] : n \in 1 .. MaxExtra } :
       \E at \in {RecordStart(list, k) + 16} :
          /\ file' = [file EXCEPT !.bytes =
                          SubSeq(file.bytes, 1, at) \o WordBytes(ws)
                          \o SubSeq(file.bytes, at + 1, Len(file.bytes))]
          /\ tamper' = [kind |-> "extra", k |-> k, words |-> ws]
    /\ UNCHANGED <<dnaVars, list, writable, vec, ret, pc>>

\* deserialize(path, vec): 0 when the file cannot be opened.
Deserialize ==
    /\ pc \in {"start", "written"}
    /\ IF file.present
       THEN \E gw \in GarbageWords, sh \in ShiftModes :
            \E r \in {deserialize(file.bytes, vec, [gw |-> gw, sh |-> sh])} :
               /\ ret' = r.ret
               /\ vec' = r.vec
       ELSE /\ ret' = "0"
            /\ UNCHANGED vec
    /\ pc' = "read"
    /\ UNCHANGED <<dnaVars, list, writable, file, tamper>>

NextCodec ==
    \/ Serialize
    \/ CorruptUnitSize
    \/ Truncate
    \/ InsertWords
    \/ Deserialize

SpecCodec == InitCodec /\ [][NextCodec]_vars

\* ===================================================================== claims
\* C2: on a buffer made by CharDna(seed, init_len), after append_char calls
\* with the values v0 .. vn-1 and no other call, char_data(i) is vi for each
\* i < n and len() is n (and no store has left the array).
C2_AppendReadRoundTrip ==
    (origin = "create" /\ kind = "bytes") =>
        /\ ~crashed
        /\ len(Self) = Len(appended)
        /\ \A i \in 1 .. Len(appended) : \A g \in GarbageBytes :
              char_data(Self, i - 1, g) = appended[i]

\* Three appends to a buffer of capacity 0: the array was reallocated twice.
C2_Witness ==
    /\ origin = "create" /\ kind = "bytes"
    /\ Len(appended) = 3
    /\ appended[1] # appended[2]
    /\ capacity(Self) = 6

\* C3 (as claimed): after append_int / append_long calls only, int_data /
\* long_data at the unit align() returned for a call gives the value that
\* call wrote.
C3_AlignmentRoundTrip ==
    (kind = "values" /\ ~crashed) =>
        \A k \in 1 .. Len(slots) : \A g \in GarbageBytes :
            IF slots[k].w = 4
            THEN int_data(Self, slots[k].unit, g)
                    = Widen(slots[k].val, FAST32_BYTES)
            ELSE long_data(Self, slots[k].unit, g) = slots[k].val

\* C4 (as claimed): every byte at an index in [len, capacity) is zero.
C4_ZeroFill ==
    ~crashed => \A i \in 1 .. capacity(Self) : i > len(Self) => m_data[i] = 0

\* C5 (as claimed): after every completed call, len() <= capacity().
C5_LengthWithinCapacity == ~crashed => len(Self) <= capacity(Self)

\* C6: capacity() never decreases from one state to the next.
C6_GrowthMonotonic == [][m_len' >= m_len]_vars

\* A capacity no constructor call of the model gives: the array has grown.
C6_Witness ==
    /\ ~crashed
    /\ capacity(Self) \notin (InitLens \cup {Len(src) : src \in Sources})

\* C7 (as claimed): len() after a completed call is at least len() before it.
C7_LengthNeverDecreases == [][~crashed' => m_ptr' >= m_ptr]_vars

\* C1 (as claimed): deserializing the file serialize wrote succeeds and gives
\* buffers with the seeds, lengths and bytes of the list, in the same order.
C1_SerializeRoundTrip ==
    (pc = "read" /\ file.present /\ tamper = NoTamper) =>
        /\ ret = "1"
        /\ Len(vec.elems) = Len(list)
        /\ \A k \in 1 .. Len(list) :
              k <= Len(vec.elems) =>
                 /\ seed(vec.elems[k]) = seed(list[k])
                 /\ len(vec.elems[k]) = len(list[k])
                 /\ \A i \in 1 .. len(list[k]) :
                       /\ i <= capacity(vec.elems[k])
                       /\ vec.elems[k].m_data[i] = list[k].m_data[i]

\* The bytes main's buffer holds according to the scenario as claimed, and
\* according to align(): the 8-byte value goes to unit 1, byte offset 8.
MainBytesClaimed ==
    <<4, 255, 0, 0, 17, 255, 255, 255, 255, 255, 255, 0, 0, 0, 0, 0>>

MainBytesAligned ==
    <<4, 255, 0, 0, 0, 0, 0, 0, 17, 255, 255, 255, 255, 255, 255, 0>>

MainRoundTripDone ==
    pc = "read" /\ file.present /\ tamper = NoTamper /\ list = <<Self>>

\* C8 (as claimed): main's buffer holds 04 FF 00 00 11 FF FF FF FF FF FF 00
\* and zeros up to the capacity; serialized alone and deserialized, the
\* buffer read back has length 12 and those bytes.
C8_MainScenarioClaimed ==
    /\ m_data = MainBytesClaimed
    /\ MainRoundTripDone =>
          /\ ret = "1" /\ Len(vec.elems) = 1
          /\ len(vec.elems[1]) = 12
          /\ SubSeq(vec.elems[1].m_data, 1, 12) = SubSeq(MainBytesClaimed, 1, 12)

\* C8 (amended): main's buffer holds 04 FF 00 00 00 00 00 00 11 FF FF FF FF
\* FF FF 00, which fills its capacity of 16; serialized alone and
\* deserialized, the buffer read back has length 16 and those bytes.
C8_MainScenarioAligned ==
    /\ m_data = MainBytesAligned
    /\ len(Self) = 16 /\ capacity(Self) = 16
    /\ MainRoundTripDone =>
          /\ ret = "1" /\ Len(vec.elems) = 1
          /\ len(vec.elems[1]) = 16
          /\ vec.elems[1].m_data = MainBytesAligned

C8_Witness == MainRoundTripDone /\ ret = "1"

\* C9: the file serialize wrote is the 4-byte little-endian record count,
\* then per record, in order: 4-byte LE len(), 4-byte LE 16, the 8-byte LE
\* seed, 4-byte LE 1, 4-byte LE 0x0000000A, and len() (not capacity())
\* payload bytes; in all 4 + the sum of (24 + len()) bytes.
C9_WireLayout ==
    (pc \in {"written", "read"} /\ file.present /\ tamper = NoTamper) =>
        /\ Len(file.bytes) = RecordStart(list, Len(list) + 1)
        /\ SubSeq(file.bytes, 1, 4) = <<Len(list), 0, 0, 0>>
        /\ \A k \in 1 .. Len(list) :
              LET o == RecordStart(list, k)
                  n == list[k].m_ptr
              IN  /\ SubSeq(file.bytes, o + 1, o + 4) = <<n, 0, 0, 0>>
                  /\ SubSeq(file.bytes, o + 5, o + 8) = <<16, 0, 0, 0>>
                  /\ SubSeq(file.bytes, o + 9, o + 16) = list[k].m_seed
                  /\ SubSeq(file.bytes, o + 17, o + 20) = <<1, 0, 0, 0>>
                  /\ SubSeq(file.bytes, o + 21, o + 24) = <<10, 0, 0, 0>>
                  /\ SubSeq(file.bytes, o + 25, o + 24 + n)
                        = SubSeq(list[k].m_data, 1, n)

\* Two records were written, the first with spare capacity after its length.
C9_Witness ==
    /\ pc = "written" /\ file.present
    /\ Len(list) = 2
    /\ len(list[1]) < capacity(list[1])
    /\ len(list[2]) > 0

\* C10 (as claimed): when the unit-size field of some record differs from 16,
\* deserialize returns 0 and the caller's vector is empty.
C10_FormatRejection ==
    (pc = "read" /\ tamper.kind = "unit") =>
        /\ ret = "0"
        /\ vec.elems = <<>>

\* The file was cut inside the payload of record k of the list: the headers
\* and payloads of the records before k, and the header of k, are whole.
CutInPayload(k) ==
    /\ tamper.kind = "trunc"
    /\ k \in 1 .. Len(list)
    /\ tamper.k >= RecordStart(list, k) + 24
    /\ tamper.k < RecordStart(list, k + 1)

\* C11 (as claimed): when the file ends inside the payload of record k,
\* deserialize returns 0 and the caller's vector holds none of the records
\* parsed before k.
C11_TruncationDiscards ==
    (pc = "read" /\ \E k \in 1 .. Len(list) : CutInPayload(k)) =>
        /\ ret = "0"
        /\ vec.elems = <<>>

\* C12: a serialize call on a path that cannot be opened writes nothing, and
\* a deserialize call on a file that cannot be opened returns 0 and leaves
\* the caller's vector as it was; neither call ends abnormally or changes a
\* buffer.
C12_IOUnavailable ==
    [][ /\ (pc = "start" /\ pc' = "written" /\ ~writable) =>
              /\ file' = file
              /\ UNCHANGED <<m_data, m_len, m_seed, m_ptr, list, vec, ret>>
        /\ (pc # "read" /\ pc' = "read" /\ ~file.present) =>
              /\ ret' = "0"
              /\ UNCHANGED <<m_data, m_len, m_seed, m_ptr, list, vec, file>>
      ]_vars

\* serialize could not open the path for writing and deserialize then found
\* no file to open.
C12_Witness ==
    /\ pc = "read" /\ ~writable /\ ~file.present
    /\ Len(list) = 2
    /\ ret = "0" /\ vec.elems = <<>>

\* set_char(offset, ..) on d asks realloc for a length its guard rejects: the
\* length set_char has just stored is above the capacity and twice that
\* length, in the offset type, is below it.
GuardRejects(d, offset) ==
    LET ptr == IF offset >= d.m_ptr THEN (offset + 1) % OffMod ELSE d.m_ptr
    IN  ptr > d.m_len /\ (ptr * 2) % OffMod < ptr

\* C13 (as claimed): a set_char call whose reallocation request the guard
\* rejects leaves the buffer's length, capacity and bytes as they were.
C13_GrowthViolation ==
    ~crashed =>
        \A offset \in Offsets, newData \in ByteVals, g \in GarbageBytes :
            GuardRejects(Self, offset) =>
                set_char(Self, offset, newData, g) = Self

\* The W bytes of unit u of the array d.m_data, least significant first.
UnitBytes(d, u, W) == SubSeq(d.m_data, u * W + 1, u * W + W)

\* C14 (as claimed): for every unit u that lies within the array, int_data(u)
\* is the unsigned value of the bytes 4u .. 4u+3 and long_data(u) that of the
\* bytes 8u .. 8u+7, the byte at the lowest offset being the least
\* significant.
C14_GetValue ==
    ~crashed =>
        \A u \in 0 .. 1 : \A g \in GarbageBytes :
            /\ (u * 4 + 4 <= capacity(Self)) =>
                  int_data(Self, u, g) = Widen(UnitBytes(Self, u, 4), FAST32_BYTES)
            /\ (u * 8 + 8 <= capacity(Self)) =>
                  long_data(Self, u, g) = UnitBytes(Self, u, 8)

\* The buffer d holds the W bytes of v, least significant first, at the
\* offsets u*W .. u*W + W - 1, and its length covers them.
HoldsValue(d, u, v, W) ==
    /\ len(d) >= u * W + W
    /\ capacity(d) >= u * W + W
    /\ UnitBytes(d, u, W) = SubSeq(v, 1, W)

\* C15 (as claimed): for every unit u whose bytes have offsets within the
\* offset type, after set_int(u, v) the buffer holds the 4 bytes of v at
\* 4u .. 4u+3 and len() >= 4u + 4; after set_long(u, v) it holds the 8 bytes
\* of v at 8u .. 8u+7 and len() >= 8u + 8.
C15_SetValue ==
    ~crashed =>
        \A g \in GarbageBytes :
            /\ \A u \in 0 .. (OffMod \div 4) - 1, v \in Vals32 :
                  \E d \in {set_int(Self, u, v, g)} : HoldsValue(d, u, v, 4)
            /\ \A u \in 0 .. (OffMod \div 8) - 1, v \in Vals64 :
                  \E d \in {set_long(Self, u, v, g)} : HoldsValue(d, u, v, 8)

\* u is the smallest unit index with u * W >= L.
IsCeil(u, L, W) == u * W >= L /\ (u - 1) * W < L

\* C16: for every length the buffer reaches, align() of the width-4 view is
\* the smallest u with 4u >= len() and align() of the width-8 view the
\* smallest u with 8u >= len(); and the unit an append_int / append_long call
\* used is that value for the length before the call.
C16_AlignCeil ==
    /\ [](/\ IsCeil(Int32_align(Self), len(Self), 4)
          /\ IsCeil(Long64_align(Self), len(Self), 8))
    /\ [][ Len(slots') = Len(slots) + 1 =>
              IsCeil(slots'[Len(slots')].unit, m_ptr, slots'[Len(slots')].w)
         ]_vars

\* A buffer made from a source of 2 or 3 bytes, then one append_int: the
\* length was not a multiple of 4 and the value went to unit 1.
C16_Witness ==
    /\ origin = "source" /\ kind = "values" /\ ~crashed
    /\ Len(slots) = 1
    /\ slots[1].w = 4 /\ slots[1].unit = 1
    /\ len(Self) = 8

\* Every byte of d at an index in [L, u * W) is within the array and zero.
PaddingZero(d, L, u, W) ==
    \A j \in L .. u * W - 1 : j < capacity(d) /\ d.m_data[j + 1] = 0

\* C17 (as claimed): on a buffer with len() <= capacity() and far from the
\* end of the offset range, append_int(v) puts v at unit ceil(len() / 4) and
\* every byte from the old len() up to that unit is zero; likewise
\* append_long(v) with 8.
C17_AppendPadding ==
    (~crashed /\ len(Self) <= capacity(Self)) =>
        \A g \in GarbageBytes :
            /\ \A v \in Vals32 : \E u \in {Int32_align(Self)} :
                  ((u * 4 + 4) * 2 < OffMod) =>
                     \E d \in {append_int(Self, v, g)} :
                        /\ HoldsValue(d, u, v, 4)
                        /\ PaddingZero(d, len(Self), u, 4)
            /\ \A v \in Vals64 : \E u \in {Long64_align(Self)} :
                  ((u * 8 + 8) * 2 < OffMod) =>
                     \E d \in {append_long(Self, v, g)} :
                        /\ HoldsValue(d, u, v, 8)
                        /\ PaddingZero(d, len(Self), u, 8)

\* The file was cut inside the header of record k of the list, after its
\* unit-size field and before the end of its terminator word.
CutInHeader(k) ==
    /\ tamper.kind = "trunc"
    /\ k \in 1 .. Len(list)
    /\ tamper.k >= RecordStart(list, k) + 8
    /\ tamper.k < RecordStart(list, k) + 24

\* C18 (as claimed): on a file that ends before the terminator word of some
\* record has been read, the deserialize call returns, and returns 0.
C18_Terminates ==
    (pc = "read" /\ \E k \in 1 .. Len(list) : CutInHeader(k)) => ret = "0"

\* The file as serialize wrote it, before words were put into a header.
WithoutExtra ==
    LET at == RecordStart(list, tamper.k) + 16
    IN  SubSeq(file.bytes, 1, at)
        \o SubSeq(file.bytes, at + 4 * Len(tamper.words) + 1, Len(file.bytes))

\* An empty vector with capacity c, as the caller hands it to deserialize.
EmptyVec(c) == [elems |-> <<>>, cap |-> c]

\* Before the call: deserialize gives, for the file with the extra words,
\* the outcome and the buffers it gives for the file without them.  After the
\* call: the outcome and the vector are those of the file without them.
SkipsExtra ==
    IF pc = "written"
    THEN \A gw \in GarbageWords, sh \in ShiftModes :
            \E u \in {[gw |-> gw, sh |-> sh]} :
               deserialize(file.bytes, vec, u) = deserialize(WithoutExtra, vec, u)
    ELSE \E c \in Reserves, sh \in ShiftModes :
            [ret |-> ret, vec |-> vec]
               = deserialize(WithoutExtra, EmptyVec(c),
                             [gw |-> <<0, 0, 0, 0>>, sh |-> sh])

\* C19 (as claimed): whatever the values of the extra header words,
\* deserialize yields the same buffers as for the file without them.
C19_HeaderSkipAnyWords == (tamper.kind = "extra") => SkipsExtra

\* C19 (amended): when none of the extra header words has the value of the
\* terminator, 0x0000000A, deserialize yields the same buffers as for the
\* file without them.
C19_HeaderSkip ==
    (/\ tamper.kind = "extra"
     /\ \A i \in 1 .. Len(tamper.words) :
           tamper.words[i] # NatWord(NEWLINE, 4)) => SkipsExtra

\* Two words were put into the header of the second of two records, and both
\* records were read.
C19_Witness ==
    /\ pc = "read" /\ tamper.kind = "extra"
    /\ tamper.k = 2 /\ Len(tamper.words) = 2
    /\ \A i \in 1 .. 2 : tamper.words[i] # NatWord(NEWLINE, 4)
    /\ ret = "1" /\ Len(vec.elems) = 2
    /\ len(vec.elems[2]) > 0

\* The length set_char(offset, ..) requires of the buffer d: m_ptr after its
\* first statement.
RequiredLen(d, offset) ==
    IF offset >= d.m_ptr THEN (offset + 1) % OffMod ELSE d.m_ptr

Max(a, b) == IF a >= b THEN a ELSE b

\* The capacity after a set_char call that requires the length ptr of a
\* buffer with capacity cap < ptr: twice ptr in the offset type, and cap when
\* that is below ptr.
GrownCapacity(ptr, cap) ==
    IF (ptr * 2) % OffMod >= ptr THEN (ptr * 2) % OffMod ELSE cap

\* C20 (as claimed): a set_char call that requires a length above the
\* capacity (twice that length being within the offset type) leaves the
\* capacity at max(required length, 2 * old capacity).
C20_GrowthPolicyClaimed ==
    ~crashed =>
        \A offset \in Offsets, newData \in ByteVals, g \in GarbageBytes :
            \E ptr \in {RequiredLen(Self, offset)} :
                (ptr > capacity(Self) /\ ptr * 2 < OffMod) =>
                    capacity(set_char(Self, offset, newData, g))
                       = Max(ptr, 2 * capacity(Self))

\* C20 (amended): a set_char call that requires a length above the capacity
\* leaves the capacity at twice the required length, computed in the offset
\* type, or unchanged when that product is below the required length; and
\* every append_char step that has to grow the buffer does so.
C20_GrowthPolicy ==
    /\ [](~crashed =>
            \A offset \in Offsets, newData \in ByteVals, g \in GarbageBytes :
                \E ptr \in {RequiredLen(Self, offset)} :
                    ptr > capacity(Self) =>
                        capacity(set_char(Self, offset, newData, g))
                           = GrownCapacity(ptr, capacity(Self)))
    /\ [][ (kind' = "bytes" /\ nops' = nops + 1
            /\ RequiredLen(Self, m_ptr) > m_len) =>
               m_len' = GrownCapacity(RequiredLen(Self, m_ptr), m_len)
         ]_vars

\* One append_char to a buffer made from a source (length = capacity): the
\* capacity is now twice the new length.
C20_Witness ==
    /\ origin = "source" /\ kind = "bytes" /\ nops = 1 /\ ~crashed
    /\ len(Self) = 4
    /\ capacity(Self) = 8

\* Every byte of before at an index below its len(), other than the index
\* except, is in the array of after with the same value.
KeepsWritten(before, after, except) ==
    \A i \in 0 .. len(before) - 1 :
        i # except =>
            /\ i < capacity(before) /\ i < capacity(after)
            /\ after.m_data[i + 1] = before.m_data[i + 1]

\* C21: a set_char(offset, v) call that makes the array grow leaves every
\* byte at an index below the length before the call, other than offset, as
\* it was; and so does every append_char step that makes the array grow.
C21_GrowthKeepsData ==
    /\ [](~crashed =>
            \A offset \in Offsets, newData \in ByteVals, g \in GarbageBytes :
                \E d \in {set_char(Self, offset, newData, g)} :
                    capacity(d) > capacity(Self) =>
                        KeepsWritten(Self, d, offset))
    /\ [][ (kind' = "bytes" /\ nops' = nops + 1 /\ m_len' > m_len) =>
               \A i \in 1 .. m_ptr : i <= m_len /\ m_data'[i] = m_data[i]
         ]_vars

\* A buffer made from the 3-byte source has grown by one append_char and
\* still begins with the source's bytes.
C21_Witness ==
    /\ origin = "source" /\ kind = "bytes" /\ nops = 1 /\ ~crashed
    /\ capacity(Self) = 8
    /\ SubSeq(m_data, 1, 3) = <<9, 8, 7>>
    /\ m_data[4] \in ByteVals

\* C22 (as claimed): the copy constructor gives a buffer with the seed,
\* capacity, len() and bytes of the original; so after deserialize has read
\* the file serialize wrote, each buffer of the vector has len() and
\* capacity() equal to the payload length of its record, whether or not the
\* vector has relocated its elements.
C22_CopyPreserves ==
    /\ \A k \in 1 .. Len(list) : CharDnaCopy(list[k]) = list[k]
    /\ (pc = "read" /\ file.present /\ tamper = NoTamper /\ ret = "1") =>
          \A k \in 1 .. Len(vec.elems) :
              k <= Len(list) =>
                 /\ len(vec.elems[k]) = len(list[k])
                 /\ capacity(vec.elems[k]) = len(list[k])

\* The index int_data(offset) passes to char_data on each of its four
\* iterations: offset *= 4, then char_data(offset * 4).
int_data_index(offset) == (((offset * 4) % OffMod) * 4) % OffMod

\* The index long_data(offset) passes to char_data on each of its eight
\* iterations: offset *= 8, then char_data(offset * 4).
long_data_index(offset) == (((offset * 8) % OffMod) * 4) % OffMod

\* The read of index j by a getValue(u) call of width W stays within the
\* bytes of unit u and within the array of d.
ReadsWithinUnit(d, j, u, W) ==
    j >= u * W /\ j < u * W + W /\ j < capacity(d)

\* C23 (as claimed): for every unit u that is fully written (4u + 4 <= len()
\* for int_data, 8u + 8 <= len() for long_data; u small enough for the index
\* computed not to wrap), the call reads only indices of that unit, all
\* below capacity().
C23_ReadsInBounds ==
    (~crashed /\ len(Self) <= capacity(Self)) =>
        \A u \in 0 .. 1 :
            /\ (u * 4 + 4 <= len(Self) /\ 16 * u < OffMod) =>
                  ReadsWithinUnit(Self, int_data_index(u), u, 4)
            /\ (u * 8 + 8 <= len(Self) /\ 32 * u < OffMod) =>
                  ReadsWithinUnit(Self, long_data_index(u), u, 8)

\* Values given to write_int32: 0xFF04, the terminator, 0x7FFFFFFF, and
\* values whose most significant byte is 0x80 or more.
Words32 ==
    { <<4, 255, 0, 0>>, <<10, 0, 0, 0>>, <<255, 255, 255, 127>>,
      <<0, 0, 0, 128>>, <<120, 86, 52, 146>>, <<255, 255, 255, 255>> }

\* C24 (as claimed): read_int32 of the four bytes write_int32(x) produced is
\* x, a value below 2^32, for every x, whatever its most significant byte
\* (x among Words32 and the 4-byte units the buffer holds).
C24_Int32RoundTrip ==
    \A x \in Words32 \cup { UnitBytes(Self, u, 4) :
                                u \in 0 .. (capacity(Self) \div 4) - 1 },
       sh \in ShiftModes :
        \E bytes \in {write_int32(Widen(x, FAST32_BYTES))} :
            /\ bytes = x
            /\ read_int32(bytes, sh) = Widen(x, FAST32_BYTES)

\* Values given to write_int64: seeds of the pool and values with bits in
\* the upper four bytes.
Words64 ==
    { Zero8, SeedLow, SeedHigh, SeedBit31, MainLong,
      <<1, 2, 3, 4, 5, 6, 7, 136>> }

\* C25 (as claimed): read_int64 of the eight bytes write_int64(x) produced
\* is x for every x; so after deserialize has read the file serialize wrote,
\* each buffer of the vector has the seed of its record's buffer.
C25_Int64RoundTrip ==
    /\ \A x \in Words64, sh \in ShiftModes :
          \E bytes \in {write_int64(x)} :
              bytes = x /\ read_int64(bytes, sh) = x
    /\ (pc = "read" /\ file.present /\ tamper = NoTamper /\ ret = "1") =>
          \A k \in 1 .. Len(vec.elems) :
              k <= Len(list) => seed(vec.elems[k]) = seed(list[k])

\* Every byte of the array of before at an index below its len() is in the
\* array of after with the same value, and the seed is the same.
KeepsEarlier(before, after) ==
    /\ seed(after) = seed(before)
    /\ \A i \in 0 .. len(before) - 1 :
          i < capacity(before) =>
             /\ i < capacity(after)
             /\ after.m_data[i + 1] = before.m_data[i + 1]

\* C26 (as claimed): an append_int or append_long call changes no byte at
\* an index below the len() before the call, and not the seed.
C26_AppendKeepsEarlier ==
    ~crashed =>
        \A g \in GarbageBytes :
            /\ \A v \in Vals32 :
                  \E d \in {append_int(Self, v, g)} : KeepsEarlier(Self, d)
            /\ \A v \in Vals64 :
                  \E d \in {append_long(Self, v, g)} : KeepsEarlier(Self, d)

\* C27 (as claimed): a set_char(offset, v) call with offset below len()
\* stores v in the array at offset and changes nothing else: len(),
\* capacity(), the seed and every other byte are as before.
C27_SetByteInPlace ==
    ~crashed =>
        \A offset \in Offsets, newData \in ByteVals, g \in GarbageBytes :
            offset < len(Self) =>
                /\ offset < capacity(Self)
                /\ set_char(Self, offset, newData, g)
                      = [Self EXCEPT !.m_data[offset + 1] = newData]

====
